---- MODULE Spec2Model ----
(***************************************************************************)
(* The SpriteFX pipeline of src/src/renderer/webgl/pipelines/              *)
(* SpriteFXPipeline.js: the render-target ladder built by boot, the target *)
(* lookup, the per-sprite draw sequence of batchQuad, copySprite and the   *)
(* quad vertex buffer.                                                     *)
(*                                                                         *)
(* Render targets are records [id, width, height]; id is the position at   *)
(* which the target was pushed on renderTargets (object identity).         *)
(* Numbers stored in the Float32Array are rationals <<n, d>> in lowest     *)
(* terms, rounded to 24 significant bits when they are written.            *)
(***************************************************************************)
EXTENDS Integers, Sequences, FiniteSets, TLC

\* ------------------------------------------------------------ bounds ----
\* how many times boot may run on one pipeline
MaxBoots == 2
\* the largest size asked of getSpriteTarget
MaxSize == 160

\* ------------------------------------------------- program constants ----
\* frameInc default, line 238
DefaultFrameInc == 64
\* the gap passed to SnapCeil, line 755
SnapGap == 64
\* 6 verts * 28 bytes = 42 floats, line 371
QuadFloats == 42
\* significant bits of a Float32Array element, line 375
MantissaBits == 24
\* 2^24: integers below it are held exactly by a Float32Array element
F32Limit == 16777216

\* the frameInc values a config may give (line 238)
FrameIncs == {32, DefaultFrameInc, 140}
\* renderer sizes <<width, height>>
Viewports == {<<200, 150>>, <<100, 40>>}
\* the renderer size of the game whose sprites are drawn
GameViewports == {<<200, 150>>}
\* the renderer size of the documented scenario
ScenarioViewports == {<<800, 600>>}
Sizes == 0..MaxSize

\* ------------------------------------------------------- arithmetic ----
Min(a, b) == IF a <= b THEN a ELSE b
Max(a, b) == IF a >= b THEN a ELSE b
Abs(a) == IF a < 0 THEN -a ELSE a
\* Math.ceil(a / b) for a >= 0, b > 0
Ceil(a, b) == (a + b - 1) \div b

\* value: the JavaScript undefined
Undefined == [id |-> -1, width |-> -1, height |-> -1]
\* value: JavaScript null (the sprite reference of spriteData)
Null == [name |-> "null", fxPadding |-> 0]

\* new RenderTarget(renderer, width, height, ...), pushed at position id
RenderTarget(id, w, h) == [id |-> id, width |-> w, height |-> h]

\* targets[i] of a JavaScript array (0-based; undefined outside it)
ArrayGet(targets, i) ==
    IF i >= 0 /\ i < Len(targets) THEN targets[i + 1] ELSE Undefined

\* Phaser.Math.Snap.Ceil(value, gap, start, divide) for value >= start
SnapCeil(value, gap, start, divide) ==
    IF gap = 0 THEN value
    ELSE LET snapped == gap * Ceil(value - start, gap)
         IN  IF divide THEN (start + snapped) \div gap ELSE start + snapped

\* ------------------------------------------------ Float32Array values ----
\* a number n / d as <<n, d>>, d > 0, in lowest terms
RECURSIVE GCD(_, _)
GCD(a, b) == IF b = 0 THEN a ELSE GCD(b, a % b)

Norm(n, d) == LET g == GCD(Abs(n), d) IN <<n \div g, d \div g>>

R(n) == <<n, 1>>

RSub(p, q) == Norm(p[1] * q[2] - q[1] * p[2], p[2] * q[2])

RAdd(p, q) == Norm(p[1] * q[2] + q[1] * p[2], p[2] * q[2])

RECURSIVE Pow2(_)
Pow2(k) == IF k = 0 THEN 1 ELSE 2 * Pow2(k - 1)

RECURSIVE IsPow2(_)
IsPow2(d) == d = 1 \/ (d % 2 = 0 /\ IsPow2(d \div 2))

\* a 32-bit float holds q exactly: q is m / 2^k with |m| < 2^24 (in the
\* normal range)
IsF32(q) == Abs(q[1]) < F32Limit /\ IsPow2(q[2])

\* a / d scaled by a power of two into [2^23, 2^24): <<a, d, e>> with the
\* value a / d * 2^e unchanged
RECURSIVE FScale(_, _, _)
FScale(a, d, e) ==
    IF a >= d * F32Limit THEN FScale(a, 2 * d, e + 1)
    ELSE IF a < d * (F32Limit \div 2) THEN FScale(2 * a, d, e - 1)
    ELSE <<a, d, e>>

\* a / d rounded to an integer, ties to even
RoundHalfEven(a, d) ==
    LET q == a \div d
        r == a % d
    IN  IF 2 * r > d \/ (2 * r = d /\ q % 2 = 1) THEN q + 1 ELSE q

\* the value a Float32Array element holds after q is stored in it: q
\* rounded to 24 significant bits (in the normal range)
Fround(q) ==
    IF IsF32(q) THEN q
    ELSE LET s == FScale(Abs(q[1]), q[2], 0)
             m == RoundHalfEven(s[1], s[2])
             sign == IF q[1] < 0 THEN -1 ELSE 1
         IN  IF s[3] >= 0 THEN <<sign * m * Pow2(s[3]), 1>>
             ELSE Norm(sign * m, Pow2(-s[3]))

\* new Float32Array(new ArrayBuffer(168)): 42 zeros
NewQuadBuffer == [i \in 0..(QuadFloats - 1) |-> R(0)]

\* new Rectangle(); x and y of targetBounds are kept as rationals
NewRectangle == [x |-> 0, y |-> 0, width |-> 0, height |-> 0]
NewTargetBounds == [x |-> R(0), y |-> R(0), width |-> 0, height |-> 0]

\* no copy-crop, no draw to the game, no copySprite draw in this call
NoCrop == [target |-> Undefined, tx |-> R(0), ty |-> 0, tw |-> 0, th |-> 0]
NoGameDraw ==
    [source |-> Undefined, shader |-> "none", x |-> R(0), y |-> R(0),
     xw |-> R(0), yh |-> R(0)]
NoCopyDraw ==
    [source |-> Undefined, target |-> Undefined, cleared |-> FALSE,
     blendMode |-> "undefined", drawnWith |-> "none",
     uvCall |-> "none", viewportY |-> 0, buffer |-> <<>>]

\* the game objects drawn: a name and the fxPadding property
Sprites ==
    {[name |-> "bird", fxPadding |-> 0], [name |-> "pipe", fxPadding |-> 10],
     [name |-> "ghost", fxPadding |-> -5]}

\* the quads given to batchQuad: a w x h rectangle at (x, y), sheared by k
QuadAt(x, y, w, h, k) ==
    [x0 |-> x, y0 |-> y, x1 |-> x + k, y1 |-> y + h,
     x2 |-> x + w + k, y2 |-> y + h, x3 |-> x + w, y3 |-> y]
Quads ==
    {QuadAt(x, y, wh[1], wh[2], k) :
        x \in {20}, y \in {30},
        wh \in {<<0, 0>>, <<50, 10>>, <<150, 70>>}, k \in {0, 7}}

\* what the pipeline's onDraw does: the default (drawToGame), copyToGame,
\* or an effect that copies the target to its swap target with copySprite
\* (clear, clearAlpha, eraseMode) and draws the swap target to the game
Hooks ==
    {[name |-> "drawToGame", clear |-> TRUE, clearAlpha |-> TRUE, eraseMode |-> FALSE],
     [name |-> "copyToGame", clear |-> TRUE, clearAlpha |-> TRUE, eraseMode |-> FALSE],
     [name |-> "copySprite", clear |-> TRUE, clearAlpha |-> TRUE, eraseMode |-> FALSE],
     [name |-> "copySprite", clear |-> FALSE, clearAlpha |-> FALSE, eraseMode |-> TRUE]}

\* effects that copy between the target and the full-screen scratch target
\* (this.fsTarget), and the copy to the swap target
CopyHooks ==
    {[name |-> "copySprite", clear |-> TRUE, clearAlpha |-> TRUE, eraseMode |-> FALSE],
     [name |-> "copyFromFull", clear |-> TRUE, clearAlpha |-> TRUE, eraseMode |-> FALSE],
     [name |-> "copyToFull", clear |-> FALSE, clearAlpha |-> TRUE, eraseMode |-> FALSE]}

\* an onDraw that draws the target to the game and then copies it to its swap
\* target, next to the default onDraw
LateCopyHooks ==
    {[name |-> "drawToGame", clear |-> TRUE, clearAlpha |-> TRUE, eraseMode |-> FALSE],
     [name |-> "drawThenCopy", clear |-> TRUE, clearAlpha |-> TRUE, eraseMode |-> FALSE]}

\* renderer blend modes
BlendModes == {"NORMAL", "ADD"}

\* the smallest positive integer a 32-bit float cannot hold
BigUV == F32Limit + 1

\* the sizes given to onResize after boot
ResizeViewports == {<<100, 40>>, <<320, 240>>}

\* the u, v pairs given to setUVs: any of them for the first two corners,
\* two of them for each of the last two
UVFirst == {<<R(0), R(1)>>, <<R(BigUV), <<3, 4>>>>}
UVSecond == {<<R(1), R(0)>>, <<<<1, 2>>, R(BigUV)>>}
UVPairs == UVFirst \cup UVSecond

\* ------------------------------------------------------------ state ----
VARIABLES
    frameInc,          \* this.frameInc (config)
    altFrame,          \* this.altFrame (config)
    width,             \* renderer.width
    height,            \* renderer.height
    renderTargets,     \* this.renderTargets
    fsTarget,          \* this.fsTarget
    maxDimension,      \* this.maxDimension
    textureIndex,      \* this.spriteData.textureIndex
    sprite,            \* this.spriteData.sprite
    spriteBounds,      \* this.spriteBounds
    targetBounds,      \* this.targetBounds
    quadVertexViewF32, \* this.quadVertexViewF32
    currentShader,     \* this.currentShader
    currentBlendMode,  \* renderer.currentBlendMode
    boots,             \* how many times boot has run
    op,                \* the operation that ran last
    arg,               \* its size argument
    uvArgs,            \* the u, v pairs A, B, C, D given to the last setUVs
    quad,              \* the game object, corners and onDraw of the last batchQuad
    ret,               \* the render target the last lookup returned
    batchRet,          \* what batchQuad returned
    error,             \* the exception the operation threw
    log,               \* the calls it made, in order
    crop,              \* its gl.copyTexSubImage2D
    gameDraw,          \* its draw to the game (bindAndDraw)
    copyDraw,          \* its gl.drawArrays in copySprite
    resized,           \* the width and height of the latest onResize
    texture,           \* this.spriteData.texture
    seen,              \* this.spriteData.sprite at each step of the operation
    asked              \* the size the operation gave to getSpriteTarget

vars == <<frameInc, altFrame, width, height, renderTargets, fsTarget,
          maxDimension, textureIndex, sprite, spriteBounds, targetBounds,
          quadVertexViewF32, currentShader, currentBlendMode,
          boots, op, arg, uvArgs, quad, ret, batchRet, error, log,
          crop, gameDraw, copyDraw, resized, texture, seen, asked>>

\* the fields of the pipeline (and of its renderer) that the methods read
\* and write, as one record
This ==
    [frameInc |-> frameInc, altFrame |-> altFrame,
     width |-> width, height |-> height,
     renderTargets |-> renderTargets, fsTarget |-> fsTarget,
     maxDimension |-> maxDimension, textureIndex |-> textureIndex,
     sprite |-> sprite, spriteBounds |-> spriteBounds,
     targetBounds |-> targetBounds,
     quadVertexViewF32 |-> quadVertexViewF32,
     currentShader |-> currentShader,
     currentBlendMode |-> currentBlendMode,
     ret |-> ret, batchRet |-> batchRet, error |-> error, log |-> log,
     crop |-> crop, gameDraw |-> gameDraw, copyDraw |-> copyDraw,
     resized |-> resized, texture |-> texture, seen |-> seen,
     asked |-> asked]

\* the pipeline at the start of a call
Call ==
    [This EXCEPT !.ret = Undefined, !.batchRet = "undefined",
                 !.error = "none", !.log = <<>>, !.crop = NoCrop,
                 !.gameDraw = NoGameDraw, !.copyDraw = NoCopyDraw,
                 !.seen = <<>>, !.asked = -1]

Commit(t) ==
    \E r \in {t} :
        /\ frameInc' = r.frameInc
        /\ altFrame' = r.altFrame
        /\ width' = r.width
        /\ height' = r.height
        /\ renderTargets' = r.renderTargets
        /\ fsTarget' = r.fsTarget
        /\ maxDimension' = r.maxDimension
        /\ textureIndex' = r.textureIndex
        /\ sprite' = r.sprite
        /\ spriteBounds' = r.spriteBounds
        /\ targetBounds' = r.targetBounds
        /\ quadVertexViewF32' = r.quadVertexViewF32
        /\ currentShader' = r.currentShader
        /\ currentBlendMode' = r.currentBlendMode
        /\ ret' = r.ret
        /\ batchRet' = r.batchRet
        /\ error' = r.error
        /\ log' = r.log
        /\ crop' = r.crop
        /\ gameDraw' = r.gameDraw
        /\ copyDraw' = r.copyDraw
        /\ resized' = r.resized
        /\ texture' = r.texture
        /\ seen' = r.seen
        /\ asked' = r.asked

\* Body applied to the value of x, which is worked out once
With(x, Body(_)) == CHOOSE r \in {Body(t) : t \in {x}} : TRUE

\* the method made these calls, in order
Logged(this, calls) == [this EXCEPT !.log = this.log \o calls]

\* the sprite that spriteData holds at this step of the operation
Seen(this) == [this EXCEPT !.seen = Append(this.seen, this.sprite)]

\* ------------------------------------------------- quad vertex data ----
\* vertexViewF32[i] = value
Store(view, i, value) == [view EXCEPT ![i] = Fround(value)]

\* mutant: the corner (w, h) of the second triangle is not written
onResizeFirstTriangle(this, w, h) ==
    LET v1 == Store(this.quadVertexViewF32, 1, R(h))
        v2 == Store(v1, 22, R(h))
        v3 == Store(v2, 14, R(w))
        v4 == Store(v3, 28, R(w))
    IN  [this EXCEPT !.quadVertexViewF32 = v4, !.resized = <<w, h>>]

onResize(this, w, h) ==
    LET v1 == Store(this.quadVertexViewF32, 1, R(h))
        v2 == Store(v1, 22, R(h))
        v3 == Store(v2, 14, R(w))
        v4 == Store(v3, 28, R(w))
        v5 == Store(v4, 35, R(w))
        v6 == Store(v5, 36, R(h))
    IN  [this EXCEPT !.quadVertexViewF32 = v6, !.resized = <<w, h>>]

\* mutant: the pairs of B and C change places
setUVsSwapped(this, uA, vA, uB, vB, uC, vC, uD, vD) ==
    LET a1 == Store(Store(this.quadVertexViewF32, 2, uA), 3, vA)
        b2 == Store(Store(a1, 9, uC), 10, vC)
        c3 == Store(Store(b2, 16, uB), 17, vB)
        a4 == Store(Store(c3, 23, uA), 24, vA)
        c5 == Store(Store(a4, 30, uC), 31, vC)
        d6 == Store(Store(c5, 37, uD), 38, vD)
    IN  [this EXCEPT !.quadVertexViewF32 = d6]

setUVs(this, uA, vA, uB, vB, uC, vC, uD, vD) ==
    LET a1 == Store(Store(this.quadVertexViewF32, 2, uA), 3, vA)
        b2 == Store(Store(a1, 9, uB), 10, vB)
        c3 == Store(Store(b2, 16, uC), 17, vC)
        a4 == Store(Store(c3, 23, uA), 24, vA)
        c5 == Store(Store(a4, 30, uC), 31, vC)
        d6 == Store(Store(c5, 37, uD), 38, vD)
    IN  [this EXCEPT !.quadVertexViewF32 = d6]

\* mutant: the ratio of the heights is used as it is
targetDiffRatio(source, target) == Norm(target.height, source.height)

\* diff = target.height / source.height, then 0.5 - (diff - 0.5) or
\* 0.5 + (0.5 - diff)
targetDiff(source, target) ==
    LET half == <<1, 2>>
        diff == Norm(target.height, source.height)
    IN  IF 2 * diff[1] > diff[2]
        THEN RSub(half, RSub(diff, half))
        ELSE RAdd(half, RSub(half, diff))

setTargetUVs(this, source, target) ==
    LET diff == targetDiff(source, target)
    IN  setUVs(this, R(0), diff, R(0), RAdd(R(1), diff), R(1), RAdd(R(1), diff), R(1), diff)

resetUVs(this) == setUVs(this, R(0), R(0), R(0), R(1), R(1), R(1), R(1), R(0))

\* ------------------------------------------------------------- boot ----
\* 2 for just swap, 3 for swap + alt swap (line 745)
offset(this) == IF this.altFrame THEN 3 ELSE 2

push(targets, w, h) == Append(targets, RenderTarget(Len(targets) + 1, w, h))

\* the targets pushed for one ladder step or for the full-screen tier:
\* the target, its swap duplicate and, with altFrame, its alt swap duplicate
pushFrames(targets, w, h, alt) ==
    LET two == push(push(targets, w, h), w, h)
    IN  IF alt THEN push(two, w, h) ELSE two

\* mutant: the loop runs to qty inclusive
RECURSIVE ladderLoopInclusive(_, _, _, _, _)
ladderLoopInclusive(targets, i, qty, inc, alt) ==
    IF i <= qty
    THEN ladderLoopInclusive(pushFrames(targets, i * inc, i * inc, alt), i + 1, qty, inc, alt)
    ELSE targets

\* for (var i = 1; i < qty; i++) { ... }
RECURSIVE ladderLoop(_, _, _, _, _)
ladderLoop(targets, i, qty, inc, alt) ==
    IF i < qty
    THEN ladderLoop(pushFrames(targets, i * inc, i * inc, alt), i + 1, qty, inc, alt)
    ELSE targets

\* Math.ceil(minDimension / this.frameInc)
bootQty(this) == Ceil(Min(this.width, this.height), this.frameInc)

\* WebGLPipeline.prototype.boot: render targets live until the pipeline is
\* destroyed and this pipeline's config asks for none, so the list is kept
WebGLPipelineBoot(this) == this

\* boot: the ladder, the full-screen targets and fsTarget are pushed on
\* this.renderTargets
boot(this) ==
    LET base == WebGLPipelineBoot(this)
        qty == bootQty(this)
        ladder == ladderLoop(base.renderTargets, 1, qty, this.frameInc, this.altFrame)
        full == pushFrames(ladder, this.width, this.height, this.altFrame)
        all == push(full, this.width, this.height)
        built == [this EXCEPT !.renderTargets = all,
                              !.fsTarget = all[Len(all)],
                              !.maxDimension = (qty - 1) * this.frameInc,
                              !.quadVertexViewF32 = NewQuadBuffer]
        sized == onResize(built, this.width, this.height)
    IN  [sized EXCEPT !.currentShader = "copyShader"]

\* --------------------------------------------------- target lookup ----
\* mutant: no full-screen fallback for oversized sprites
getSpriteTargetIndexNoFallback(this, size) ==
    (SnapCeil(size, SnapGap, 0, TRUE) - 1) * offset(this)

getSpriteTargetIndex(this, size) ==
    IF size > this.maxDimension
    THEN Len(this.renderTargets) - offset(this)
    ELSE (SnapCeil(size, SnapGap, 0, TRUE) - 1) * offset(this)

getSpriteTarget(this, size) ==
    LET index == getSpriteTargetIndex(this, size)
    IN  [this EXCEPT !.textureIndex = index,
                     !.ret = ArrayGet(this.renderTargets, index),
                     !.asked = size]

getSwapTarget(this) ==
    [this EXCEPT !.ret = ArrayGet(this.renderTargets, this.textureIndex + 1)]

getAltSwapTarget(this) ==
    IF this.altFrame
    THEN [this EXCEPT !.ret = ArrayGet(this.renderTargets, this.textureIndex + 2)]
    ELSE [this EXCEPT !.ret = Undefined]

\* ------------------------------------------------------- copySprite ----
\* renderer.setBlendMode(mode)
setBlendMode(this, mode) ==
    [Logged(this, <<"setBlendMode">>) EXCEPT !.currentBlendMode = mode]

\* mutant: the blend mode is not put back after the draw
copySpriteDrawNoRestore(this, source, target, clear, eraseMode) ==
    LET bound == Logged(this, <<"bindFramebuffer", "framebufferTexture2D">>)
        cleared == IF clear THEN Logged(bound, <<"clearColor", "clear">>) ELSE bound
        blendMode == IF eraseMode THEN cleared.currentBlendMode ELSE "undefined"
        erasing == IF eraseMode THEN setBlendMode(cleared, "ERASE") ELSE cleared
    IN  [Logged(erasing, <<"bufferData", "drawArrays", "bindFramebuffer">>)
            EXCEPT !.copyDraw = [uvCall |-> this.copyDraw.uvCall,
                                 viewportY |-> this.copyDraw.viewportY,
                                 buffer |-> this.quadVertexViewF32,
                                 source |-> source, target |-> target,
                                 cleared |-> clear, blendMode |-> blendMode,
                                 drawnWith |-> erasing.currentBlendMode]]

\* copySprite from the bind of the target's framebuffer on (lines 876-901)
copySpriteDraw(this, source, target, clear, eraseMode) ==
    LET bound == Logged(this, <<"bindFramebuffer", "framebufferTexture2D">>)
        cleared == IF clear THEN Logged(bound, <<"clearColor", "clear">>) ELSE bound
        \* var blendMode = this.renderer.currentBlendMode
        blendMode == IF eraseMode THEN cleared.currentBlendMode ELSE "undefined"
        erasing == IF eraseMode THEN setBlendMode(cleared, "ERASE") ELSE cleared
        drawn == [Logged(erasing, <<"bufferData", "drawArrays">>)
                    EXCEPT !.copyDraw = [uvCall |-> this.copyDraw.uvCall,
                                         viewportY |-> this.copyDraw.viewportY,
                                         \* gl.bufferData(..., this.quadVertexData, ...)
                                         buffer |-> this.quadVertexViewF32,
                                         source |-> source, target |-> target,
                                         cleared |-> clear, blendMode |-> blendMode,
                                         drawnWith |-> erasing.currentBlendMode]]
        restored == IF eraseMode THEN setBlendMode(drawn, blendMode) ELSE drawn
    IN  Logged(restored, <<"bindFramebuffer">>)

\* mutant: the test of the heights is turned round
copySpriteUVsFlipped(this, source, target) ==
    IF source.height < target.height
    THEN [setTargetUVs(Logged(this, <<"viewport", "setTargetUVs">>), source, target)
            EXCEPT !.copyDraw.uvCall = "setTargetUVs",
                   !.copyDraw.viewportY = 0]
    ELSE [resetUVs(Logged(this, <<"viewport", "resetUVs">>))
            EXCEPT !.copyDraw.uvCall = "resetUVs",
                   !.copyDraw.viewportY = target.height - source.height]

\* copySprite, lines 861 to 874: the viewport and the UVs of the copy
copySpriteUVs(this, source, target) ==
    IF source.height > target.height
    THEN [setTargetUVs(Logged(this, <<"viewport", "setTargetUVs">>), source, target)
            EXCEPT !.copyDraw.uvCall = "setTargetUVs",
                   !.copyDraw.viewportY = 0]
    ELSE [resetUVs(Logged(this, <<"viewport", "resetUVs">>))
            EXCEPT !.copyDraw.uvCall = "resetUVs",
                   !.copyDraw.viewportY = target.height - source.height]

\* mutant: the hooks are called after the copy is drawn
copySpriteHooksLate(this, source, target, clear, clearAlpha, eraseMode) ==
    LET bound == [Logged(this, <<"setVertexBuffer", "bind", "set1i">>)
                    EXCEPT !.currentShader = "copyShader"]
    IN  IF this.sprite = Null
        THEN [bound EXCEPT !.error = "TypeError"]
        ELSE LET hooked == Logged(Seen(bound), <<"activeTexture", "bindTexture">>)
             IN  IF source = Undefined \/ target = Undefined
                 THEN [hooked EXCEPT !.error = "TypeError"]
                 ELSE With(copySpriteUVs(hooked, source, target),
                           LAMBDA uvs :
                               Logged(copySpriteDraw(uvs, source, target, clear, eraseMode),
                                      <<"onFXCopy", "onCopySprite">>))

\* copySprite(source, target, clear, clearAlpha, eraseMode), with the
\* default shader, this.copyShader
copySprite(this, source, target, clear, clearAlpha, eraseMode) ==
    LET bound == [Logged(this, <<"setVertexBuffer", "bind", "set1i">>)
                    EXCEPT !.currentShader = "copyShader"]
    IN  IF this.sprite = Null
        THEN \* sprite.onFXCopy on null
             [bound EXCEPT !.error = "TypeError"]
        ELSE LET hooked == Logged(Seen(bound), <<"onFXCopy", "onCopySprite",
                                                 "activeTexture", "bindTexture">>)
             IN  IF source = Undefined \/ target = Undefined
                 THEN \* source.texture, target.height on undefined
                      [hooked EXCEPT !.error = "TypeError"]
                 ELSE With(copySpriteUVs(hooked, source, target),
                           LAMBDA uvs :
                               copySpriteDraw(uvs, source, target, clear, eraseMode))

\* ------------------------------------------------------- drawSprite ----
\* drawSprite(target, clear, shader): the defaults of clear and shader are
\* set and the rest of the body is a comment, so no call is made
drawSprite(this, target, clear, shader) ==
    LET cleared == IF clear = "undefined" THEN "false" ELSE clear
        used == IF shader = "undefined" THEN "drawSpriteShader" ELSE shader
    IN  this

\* -------------------------------------------------- draw to the game ----
\* mutant: the sprite is left in spriteData after the draw
bindAndDrawKeepsSprite(this, source) ==
    LET x == this.targetBounds.x
        y == this.targetBounds.y
        xw == RAdd(x, R(source.width))
        yh == RAdd(y, R(source.height))
        drawn == Logged(Seen(this), <<"set1i", "popFramebuffer", "activeTexture",
                                      "bindTexture", "batchVert", "batchVert",
                                      "batchVert", "batchVert", "batchVert",
                                      "batchVert", "flush", "resetTextures">>)
    IN  [drawn EXCEPT !.gameDraw = [source |-> source,
                                    shader |-> this.currentShader,
                                    x |-> x, y |-> y, xw |-> xw, yh |-> yh]]

\* bindAndDraw(source); this._tempMatrix1 is the identity
bindAndDraw(this, source) ==
    LET x == this.targetBounds.x
        y == this.targetBounds.y
        xw == RAdd(x, R(source.width))
        yh == RAdd(y, R(source.height))
        drawn == Logged(Seen(this), <<"set1i", "popFramebuffer", "activeTexture",
                                      "bindTexture", "batchVert", "batchVert",
                                      "batchVert", "batchVert", "batchVert",
                                      "batchVert", "flush", "resetTextures">>)
    IN  IF source = Undefined
        THEN \* source.texture on undefined
             [Logged(Seen(this), <<"set1i", "popFramebuffer", "activeTexture">>)
                 EXCEPT !.error = "TypeError"]
        ELSE [drawn EXCEPT !.gameDraw = [source |-> source,
                                         shader |-> this.currentShader,
                                         x |-> x, y |-> y, xw |-> xw, yh |-> yh],
                           !.sprite = Null,
                           !.texture = "null"]

drawToGame(this, source) ==
    bindAndDraw([Logged(this, <<"drawToGame", "setShader">>)
                    EXCEPT !.currentShader = "copyShader"], source)

copyToGame(this, source) ==
    bindAndDraw([Logged(this, <<"copyToGame", "setShader">>)
                    EXCEPT !.currentShader = "gameShader"], source)

\* onDraw(target, swapTarget): drawToGame(target) unless the pipeline
\* overrides it as hook says
onDraw(this, hook, target, swapTarget) ==
    IF hook.name = "drawToGame" THEN drawToGame(this, target)
    ELSE IF hook.name = "copyToGame" THEN copyToGame(this, target)
    ELSE IF hook.name = "copyFromFull"
    THEN With(copySprite(Logged(this, <<"copySprite">>), this.fsTarget, target,
                         hook.clear, hook.clearAlpha, hook.eraseMode),
              LAMBDA copied :
                  IF copied.error # "none" THEN copied ELSE drawToGame(copied, target))
    ELSE IF hook.name = "copyToFull"
    THEN With(copySprite(Logged(this, <<"copySprite">>), target, this.fsTarget,
                         hook.clear, hook.clearAlpha, hook.eraseMode),
              LAMBDA copied :
                  IF copied.error # "none" THEN copied
                  ELSE drawToGame(copied, this.fsTarget))
    ELSE IF hook.name = "drawThenCopy"
    THEN With(drawToGame(this, target),
              LAMBDA drawn :
                  IF drawn.error # "none" THEN drawn
                  ELSE copySprite(Logged(drawn, <<"copySprite">>), target, swapTarget,
                                  hook.clear, hook.clearAlpha, hook.eraseMode))
    ELSE With(copySprite(Logged(this, <<"copySprite">>), target, swapTarget,
                         hook.clear, hook.clearAlpha, hook.eraseMode),
              LAMBDA copied :
                  IF copied.error # "none" THEN copied ELSE drawToGame(copied, swapTarget))

\* -------------------------------------------------------- batchQuad ----
Min4(a, b, c, d) == Min(Min(a, b), Min(c, d))
Max4(a, b, c, d) == Max(Max(a, b), Max(c, d))

\* the quad bounds, spriteBounds.setTo(bx, by, bw, bh)
quadBounds(q) ==
    LET bx == Min4(q.x0, q.x1, q.x2, q.x3)
        by == Min4(q.y0, q.y1, q.y2, q.y3)
        br == Max4(q.x0, q.x1, q.x2, q.x3)
        bb == Max4(q.y0, q.y1, q.y2, q.y3)
    IN  [x |-> bx, y |-> by, width |-> br - bx, height |-> bb - by]

\* Rectangle.centerX, centerY
centerX(rect) == Norm(2 * rect.x + rect.width, 2)
centerY(rect) == Norm(2 * rect.y + rect.height, 2)

\* Phaser.Geom.Rectangle.CenterOn(rect, x, y)
CenterOn(rect, x, y) ==
    [rect EXCEPT !.x = RSub(x, Norm(rect.width, 2)),
                 !.y = RSub(y, Norm(rect.height, 2))]

\* mutant: the padding is added on one side only
requiredSizeOnePadding(gameObject, q) ==
    LET bounds == quadBounds(q)
        padding == gameObject.fxPadding
    IN  Abs(Max(bounds.width + padding, bounds.height + padding))

\* the size asked of the pool: Math.abs(Math.max(width, height))
requiredSize(gameObject, q) ==
    LET bounds == quadBounds(q)
        padding == gameObject.fxPadding
    IN  Abs(Max(bounds.width + padding * 2, bounds.height + padding * 2))

\* mutant: targetBounds is placed on the corner of the quad bounds
placeTargetOnCorner(target, bounds) ==
    CenterOn([x |-> R(0), y |-> R(0), width |-> target.width, height |-> target.height],
             R(bounds.x), R(bounds.y))

\* this.targetBounds.setTo(0, 0, target.width, target.height), centred
placeTarget(target, bounds) ==
    CenterOn([x |-> R(0), y |-> R(0), width |-> target.width, height |-> target.height],
             centerX(bounds), centerY(bounds))

\* batchQuad to line 572: the bounds, the target, its placement, the sprite
batchQuadSelect(this, gameObject, q) ==
    LET bounds == quadBounds(q)
        found == getSpriteTarget([this EXCEPT !.spriteBounds = bounds],
                                 requiredSize(gameObject, q))
    IN  IF found.ret = Undefined
        THEN \* target.width on undefined
             [found EXCEPT !.error = "TypeError"]
        ELSE [found EXCEPT !.targetBounds = placeTarget(found.ret, bounds),
                           !.sprite = gameObject]

\* mutant: the sprite draw is left in the batch, not flushed
batchQuadDrawNoFlush(this) ==
    [Logged(Seen(this), <<"setShader", "set1i", "onDrawSprite", "onFX",
                    "setTextureZero", "viewport", "bindFramebuffer",
                    "framebufferTexture2D", "clearColor", "clear",
                    "batchVert", "batchVert", "batchVert", "batchVert",
                    "batchVert", "batchVert", "clearTextureZero">>)
        EXCEPT !.currentShader = "drawSpriteShader"]

\* batchQuad, lines 574 to 606: the sprite drawn to fsTarget
batchQuadDraw(this) ==
    [Logged(Seen(this), <<"setShader", "set1i", "onDrawSprite", "onFX",
                    "setTextureZero", "viewport", "bindFramebuffer",
                    "framebufferTexture2D", "clearColor", "clear",
                    "batchVert", "batchVert", "batchVert", "batchVert",
                    "batchVert", "batchVert", "flush", "clearTextureZero">>)
        EXCEPT !.currentShader = "drawSpriteShader"]

\* batchQuad, lines 608 to 625: the copy from fsTarget to the target
batchQuadCrop(this, gameObject, q, target) ==
    LET bounds == quadBounds(q)
        padding == gameObject.fxPadding
        bb == bounds.y + bounds.height
        ty == IF target.height = this.height THEN 0
              ELSE this.height - (bb + padding * 2)
    IN  [Logged(this, <<"activeTexture", "bindTexture", "copyTexSubImage2D",
                        "bindFramebuffer", "bindTexture">>)
            EXCEPT !.crop = [target |-> target,
                             tx |-> this.targetBounds.x,
                             ty |-> ty,
                             tw |-> Min(this.width, target.width),
                             th |-> Min(this.height, target.height)]]

\* batchQuad, lines 632 to 639: onBatch, onDraw, return true
batchQuadFinish(this, gameObject, hook, target) ==
    LET batched == [Logged(Seen(this), <<"onBatch", "onDraw">>)
                      EXCEPT !.currentShader = "copyShader"]
        swapTarget == getSwapTarget(batched).ret
    IN  With(onDraw(batched, hook, target, swapTarget),
             LAMBDA painted :
                 IF painted.error # "none" THEN painted
                 ELSE [painted EXCEPT !.batchRet = "true"])

batchQuad(this, gameObject, q, hook) ==
    With(batchQuadSelect(this, gameObject, q),
         LAMBDA selected :
             IF selected.error # "none" THEN selected
             ELSE With(batchQuadCrop(batchQuadDraw(selected), gameObject, q, selected.ret),
                       LAMBDA cropped :
                           batchQuadFinish(cropped, gameObject, hook, selected.ret)))

\* ---------------------------------------------------------- actions ----
\* the pipeline as constructed on a renderer that has not booted yet
Init ==
    /\ frameInc \in FrameIncs
    /\ altFrame \in BOOLEAN
    /\ \E vp \in Viewports : width = vp[1] /\ height = vp[2]
    /\ renderTargets = <<>>
    /\ fsTarget = Undefined
    /\ maxDimension = 0
    /\ textureIndex = 0
    /\ sprite = Null
    /\ spriteBounds = NewRectangle
    /\ targetBounds = NewTargetBounds
    /\ quadVertexViewF32 = <<>>
    /\ currentShader = "undefined"
    /\ currentBlendMode = "NORMAL"
    /\ boots = 0
    /\ op = "new"
    /\ arg = 0
    /\ uvArgs = <<>>
    /\ quad = <<>>
    /\ ret = Undefined
    /\ batchRet = "undefined"
    /\ error = "none"
    /\ log = <<>>
    /\ crop = NoCrop
    /\ gameDraw = NoGameDraw
    /\ copyDraw = NoCopyDraw
    /\ resized = <<0, 0>>
    /\ texture = "null"
    /\ seen = <<>>
    /\ asked = -1

\* boot, on a renderer that has one of the sizes vps at that time
BootOn(vps) ==
    /\ \E vp \in vps :
         Commit(boot([Call EXCEPT !.width = vp[1], !.height = vp[2]]))
    /\ boots' = boots + 1
    /\ op' = "boot"
    /\ arg' = 0
    /\ uvArgs' = <<>>
    /\ quad' = <<>>

Boot ==
    /\ boots < MaxBoots
    /\ BootOn(Viewports)

\* the one boot of a pipeline in normal use
BootOnce ==
    /\ boots = 0
    /\ BootOn(Viewports)

\* the one boot of the pipeline of a running game
BootGame ==
    /\ boots = 0
    /\ BootOn(GameViewports)

\* the single boot of the 800x600 scenario
BootScenario ==
    /\ boots = 0
    /\ BootOn(ScenarioViewports)

GetSpriteTarget ==
    /\ boots > 0
    /\ \E size \in Sizes :
         /\ Commit(getSpriteTarget(Call, size))
         /\ arg' = size
    /\ op' = "getSpriteTarget"
    /\ UNCHANGED <<boots, uvArgs, quad>>

GetSwapTarget ==
    /\ boots > 0
    /\ Commit(getSwapTarget(Call))
    /\ op' = "getSwapTarget"
    /\ UNCHANGED <<boots, arg, uvArgs, quad>>

GetAltSwapTarget ==
    /\ boots > 0
    /\ Commit(getAltSwapTarget(Call))
    /\ op' = "getAltSwapTarget"
    /\ UNCHANGED <<boots, arg, uvArgs, quad>>

SetUVs ==
    /\ boots > 0
    /\ \E a \in UVPairs, b \in UVPairs, c \in UVFirst, d \in UVSecond :
         /\ Commit(setUVs(Call, a[1], a[2], b[1], b[2], c[1], c[2], d[1], d[2]))
         /\ uvArgs' = <<a, b, c, d>>
    /\ op' = "setUVs"
    /\ UNCHANGED <<boots, arg, quad>>

ResetUVs ==
    /\ boots > 0
    /\ Commit(resetUVs(Call))
    /\ op' = "resetUVs"
    /\ uvArgs' = <<>>
    /\ UNCHANGED <<boots, arg, quad>>

NextPool == Boot \/ GetSpriteTarget \/ GetSwapTarget \/ GetAltSwapTarget

\* the render-target pool: boot and the target lookups
SpecPool == Init /\ [][NextPool]_vars

NextScenario == BootScenario \/ GetSpriteTarget \/ GetSwapTarget \/ GetAltSwapTarget

\* the same pool on the 800x600 renderer of the documented scenario
SpecScenario == Init /\ [][NextScenario]_vars

\* the renderer changes the blend mode between two sprites
SetBlendMode ==
    /\ boots > 0
    /\ \E mode \in BlendModes \ {currentBlendMode} :
         Commit(setBlendMode(Call, mode))
    /\ op' = "setBlendMode"
    /\ UNCHANGED <<boots, arg, uvArgs, quad>>

\* batchQuad for a pipeline whose onDraw is one of hooks
BatchQuadWith(hooks) ==
    /\ \E gameObject \in Sprites, q \in Quads, hook \in hooks :
         /\ Commit(batchQuad(Call, gameObject, q, hook))
         /\ quad' = [gameObject |-> gameObject, q |-> q, hook |-> hook]
    /\ op' = "batchQuad"
    /\ UNCHANGED <<boots, arg, uvArgs>>

BatchQuad ==
    /\ boots > 0
    /\ BatchQuadWith(Hooks)

BatchCopy ==
    /\ boots > 0
    /\ BatchQuadWith(CopyHooks)

NextBatch == BootGame \/ SetBlendMode \/ BatchQuad

\* the sprites of a frame drawn one after another by a booted pipeline
SpecBatch == Init /\ [][NextBatch]_vars

OnResize ==
    /\ boots > 0
    /\ \E vp \in ResizeViewports : Commit(onResize(Call, vp[1], vp[2]))
    /\ op' = "onResize"
    /\ UNCHANGED <<boots, arg, uvArgs, quad>>

\* the first target of every size of the pool
Firsts == {i \in DOMAIN renderTargets : i % offset(This) = 1}

\* setTargetUVs(source, target) on two targets of the pool
SetTargetUVs ==
    /\ boots > 0
    /\ \E i \in Firsts, j \in Firsts :
         /\ Commit(setTargetUVs(Call, renderTargets[i], renderTargets[j]))
         /\ uvArgs' = <<renderTargets[i], renderTargets[j]>>
    /\ op' = "setTargetUVs"
    /\ UNCHANGED <<boots, arg, quad>>

NextCopy == BootGame \/ BatchCopy

\* sprites drawn one after another by a pipeline whose effects copy
\* between targets of different sizes
SpecCopy == Init /\ [][NextCopy]_vars

\* sprites drawn by an onDraw that copies after the draw to the game
BatchLateCopy ==
    /\ boots > 0
    /\ BatchQuadWith(LateCopyHooks)

\* copySprite called on a target of the pool and its swap target, outside of
\* any batchQuad
CopySprite ==
    /\ boots > 0
    /\ \E i \in {0, offset(This)}, clear \in BOOLEAN :
         Commit(copySprite(Call, ArrayGet(renderTargets, i),
                           ArrayGet(renderTargets, i + 1), clear, TRUE, FALSE))
    /\ op' = "copySprite"
    /\ UNCHANGED <<boots, arg, uvArgs, quad>>

NextSprite == BootGame \/ BatchLateCopy \/ CopySprite

\* copySprite called at any time between the sprites of a booted pipeline
SpecSprite == Init /\ [][NextSprite]_vars

NextQuad == BootOnce \/ SetUVs \/ ResetUVs

\* the quad vertex buffer of a booted pipeline
SpecQuad == Init /\ [][NextQuad]_vars

\* drawSprite on the target that getSpriteTarget returned
DrawSprite ==
    /\ boots > 0
    /\ ret # Undefined
    /\ \E clear \in {"undefined", "true", "false"}, shader \in {"undefined", "copyShader"} :
         Commit(drawSprite([Call EXCEPT !.ret = ret], ret, clear, shader))
    /\ op' = "drawSprite"
    /\ UNCHANGED <<boots, arg, uvArgs, quad>>

NextDraw == BootOnce \/ GetSpriteTarget \/ DrawSprite

\* a pipeline whose hooks draw the sprite themselves with drawSprite
SpecDraw == Init /\ [][NextDraw]_vars

NextResize == BootOnce \/ OnResize \/ SetUVs \/ SetTargetUVs \/ ResetUVs

\* the quad vertex buffer across resizes and blits
SpecResize == Init /\ [][NextResize]_vars

\* ------------------------------------------------ the pool's claims ----
\* the targets the last boot pushed on the list are its last BootLength
BootLength == (bootQty(This) - 1) * offset(This) + offset(This) + 1

\* C1: for every booted pipeline and every size 0 <= s <= maxDimension,
\* getSpriteTarget(s) returns an existing target that is square and large
\* enough: width = height >= s.
C1_SpriteTargetFits ==
    (op = "getSpriteTarget" /\ arg >= 0 /\ arg <= maxDimension)
        => /\ ret # Undefined
           /\ ret.width = ret.height
           /\ ret.width >= arg

\* C2: for every size s <= maxDimension, getSpriteTarget(s) returns the
\* target of dimension ceil(s / frameInc) * frameInc, for every configured
\* frameInc.
C2_BucketByFrameInc ==
    (op = "getSpriteTarget" /\ arg >= 1 /\ arg <= maxDimension)
        => /\ ret # Undefined
           /\ ret.width = Ceil(arg, frameInc) * frameInc
           /\ ret.height = Ceil(arg, frameInc) * frameInc

\* C3: for every size s > maxDimension, getSpriteTarget(s) returns a target
\* of the renderer's size that is one of the full-screen targets pushed
\* after the ladder by the latest boot, never undefined and never a ladder
\* target.
C3_OversizedIsFullScreen ==
    (op = "getSpriteTarget" /\ arg > maxDimension)
        => /\ ret # Undefined
           /\ ret.width = width
           /\ ret.height = height
           /\ ret.id > Len(renderTargets) - (offset(This) + 1)
           /\ ret.id <= Len(renderTargets)
           /\ ret = renderTargets[ret.id]

\* C3 witness: an oversized request on a pipeline whose ladder is not empty
C3_Witness ==
    /\ op = "getSpriteTarget"
    /\ arg > maxDimension
    /\ maxDimension > 0
    /\ ret.width = width

\* the targets the boot step pushed
Appended == SubSeq(renderTargets', Len(renderTargets) + 1, Len(renderTargets'))

\* app is a ladder of n buckets of step inc, each of off equal squares,
\* followed by off full-screen targets and the scratch target fs
LadderShape(app, n, inc, off, w, h, fs) ==
    /\ Len(app) = n * off + off + 1
    /\ \A i \in 1..n : \A j \in 1..off :
         /\ app[(i - 1) * off + j].width = i * inc
         /\ app[(i - 1) * off + j].height = i * inc
    /\ \A j \in 1..(off + 1) :
         /\ app[n * off + j].width = w
         /\ app[n * off + j].height = h
    /\ fs = app[Len(app)]

\* C4 as claimed: boot builds one square bucket of size i * increment for
\* every i from 1 to ceil(min(w, h) / increment) inclusive, each with its
\* duplicates, then the full-screen targets and the scratch target, and
\* maxDimension is the size of the last bucket.
C4_LadderToQtyInclusive ==
    [][op' = "boot" =>
        LET qty == Ceil(Min(width', height'), frameInc')
        IN  /\ LadderShape(Appended, qty, frameInc', offset([altFrame |-> altFrame']),
                           width', height', fsTarget')
            /\ maxDimension' = qty * frameInc']_vars

\* C4 amended: the buckets are those of i from 1 to
\* ceil(min(w, h) / increment) - 1, and maxDimension is
\* (ceil(min(w, h) / increment) - 1) * increment.
C4_LadderBelowQty ==
    [][op' = "boot" =>
        LET qty == Ceil(Min(width', height'), frameInc')
        IN  /\ LadderShape(Appended, qty - 1, frameInc', offset([altFrame |-> altFrame']),
                           width', height', fsTarget')
            /\ maxDimension' = (qty - 1) * frameInc']_vars

\* C4 witness: a boot that built at least two buckets with alt swap frames
C4_Witness ==
    /\ op = "boot"
    /\ altFrame
    /\ maxDimension >= 2 * frameInc
    /\ Len(renderTargets) >= 2 * 3 + 3 + 1

\* the sizes of the square targets on the list
SizeBuckets ==
    {renderTargets[i].width : i \in {j \in 1..Len(renderTargets) :
        renderTargets[j].width = renderTargets[j].height}}

\* C5 as claimed: on an 800x600 renderer with increment 64 the ladder has 8
\* size buckets before the full-screen tier.
C5_EightBuckets ==
    (boots = 1 /\ width = 800 /\ height = 600 /\ frameInc = DefaultFrameInc)
        => Cardinality(SizeBuckets) = 8

\* C5 amended: on an 800x600 renderer with increment 64 the ladder has
\* ceil(600 / 64) - 1 = 9 size buckets before the full-screen tier.
C5_NineBuckets ==
    (boots = 1 /\ width = 800 /\ height = 600 /\ frameInc = DefaultFrameInc)
        => /\ Cardinality(SizeBuckets) = 9
           /\ Cardinality(SizeBuckets) = Ceil(600, 64) - 1
           /\ Len(renderTargets) = 9 * offset(This) + offset(This) + 1

\* C5 witness: the 800x600 renderer booted with increment 64
C5_Witness ==
    /\ op = "boot"
    /\ boots = 1
    /\ width = 800
    /\ height = 600
    /\ frameInc = DefaultFrameInc
    /\ maxDimension = 576

\* C6: after any number of boots the list holds exactly the one ladder of
\* the current renderer size, as after a single boot, and fsTarget and the
\* targets getSpriteTarget returns are targets of the latest boot.
C6_RebootReplacesLadder ==
    boots >= 1
        => /\ Len(renderTargets) = BootLength
           /\ fsTarget = renderTargets[Len(renderTargets)]
           /\ (op = "getSpriteTarget" /\ ret # Undefined)
                => ret.id > Len(renderTargets) - BootLength

\* -------------------------------------------- the draw sequence claims ----
\* the position of the first call e in a log, or its length when absent
RECURSIVE FirstAt(_, _, _)
FirstAt(calls, e, i) ==
    IF i > Len(calls) THEN Len(calls)
    ELSE IF calls[i] = e THEN i ELSE FirstAt(calls, e, i + 1)

\* how many times e was called
Count(calls, e) == Cardinality({i \in 1..Len(calls) : calls[i] = e})

\* the steps of batchQuad among the calls made up to its onDraw
BatchSteps ==
    SelectSeq(SubSeq(log, 1, FirstAt(log, "onDraw", 1)),
              LAMBDA e : e \in {"onDrawSprite", "onFX", "clear", "batchVert", "flush",
                                "copyTexSubImage2D", "onBatch", "onDraw"})

ExpectedSteps ==
    <<"onDrawSprite", "onFX", "clear",
      "batchVert", "batchVert", "batchVert", "batchVert", "batchVert", "batchVert",
      "flush", "copyTexSubImage2D", "onBatch", "onDraw">>

StepsOnceInOrder ==
    /\ BatchSteps = ExpectedSteps
    /\ \A e \in {"onDrawSprite", "onFX", "copyTexSubImage2D", "onBatch", "onDraw"} :
         Count(log, e) = 1

\* C7: within every batchQuad call the steps happen exactly once each and
\* in this order: onDrawSprite, onFX, the clear of the scratch target, the
\* 6 vertices of the sprite and their flush, the copy-crop, onBatch, onDraw.
C7_StepsOnceInOrder == (op = "batchQuad") => StepsOnceInOrder

\* the calls of batchQuad that do not throw make the steps once, in order
BatchStepsWhenCompleted == (op = "batchQuad" /\ error = "none") => StepsOnceInOrder

\* the least and the greatest of the x and of the y of the quad's corners
QuadXs == {quad.q.x0, quad.q.x1, quad.q.x2, quad.q.x3}
QuadYs == {quad.q.y0, quad.q.y1, quad.q.y2, quad.q.y3}
Least(S) == CHOOSE m \in S : \A v \in S : m <= v
Greatest(S) == CHOOSE m \in S : \A v \in S : m >= v

\* C8: the composite pass of a batchQuad call draws the target selected in
\* that call (its swap target when onDraw copies to it) at the targetBounds
\* computed in that call: of the target's width and height and centred on
\* the centre of the bounding box of that call's quad.
C8_CompositeOfThisCall ==
    (op = "batchQuad" /\ gameDraw # NoGameDraw)
        => /\ crop.target = ArrayGet(renderTargets, textureIndex)
           /\ gameDraw.source =
                IF quad.hook.name = "copySprite"
                THEN ArrayGet(renderTargets, textureIndex + 1)
                ELSE crop.target
           /\ targetBounds.width = crop.target.width
           /\ targetBounds.height = crop.target.height
           /\ gameDraw.source.width = crop.target.width
           /\ gameDraw.source.height = crop.target.height
           /\ gameDraw.x = targetBounds.x
           /\ gameDraw.y = targetBounds.y
           /\ gameDraw.xw = RAdd(targetBounds.x, R(targetBounds.width))
           /\ gameDraw.yh = RAdd(targetBounds.y, R(targetBounds.height))
           /\ RAdd(gameDraw.x, gameDraw.xw) = R(Least(QuadXs) + Greatest(QuadXs))
           /\ RAdd(gameDraw.y, gameDraw.yh) = R(Least(QuadYs) + Greatest(QuadYs))

\* C8 witness: a sheared sprite drawn to the game by the default onDraw from
\* a 64x64 target, after an earlier sprite whose onDraw ran copySprite
C8_Witness ==
    /\ op = "batchQuad"
    /\ error = "none"
    /\ quad.hook.name = "drawToGame"
    /\ gameDraw.source.width = 64
    /\ gameDraw.x[2] = 2
    /\ quadVertexViewF32[17] = R(1)

\* C9: after copySprite with eraseMode = true the renderer's blend mode is
\* the one that was current when the switch to ERASE was made, ERASE being
\* in effect for the draw; with eraseMode = false copySprite does not
\* change the blend mode.
C9_EraseRestoresBlendMode ==
    [][(op' = "batchQuad" /\ copyDraw' # NoCopyDraw)
        => /\ currentBlendMode' = currentBlendMode
           /\ quad'.hook.eraseMode
                => /\ copyDraw'.drawnWith = "ERASE"
                   /\ copyDraw'.blendMode = currentBlendMode
                   /\ Count(log', "setBlendMode") = 2
           /\ ~quad'.hook.eraseMode
                => /\ copyDraw'.drawnWith = currentBlendMode
                   /\ Count(log', "setBlendMode") = 0]_vars

\* C9 witness: an erase copy made while the blend mode was ADD
C9_Witness ==
    /\ op = "batchQuad"
    /\ quad.hook.eraseMode
    /\ copyDraw.drawnWith = "ERASE"
    /\ copyDraw.blendMode = "ADD"
    /\ currentBlendMode = "ADD"

\* ------------------------------------------------ the quad UV claims ----
\* the slots of the u and v of the 6 vertices
UVSlots == {2, 3, 9, 10, 16, 17, 23, 24, 30, 31, 37, 38}

\* the pairs read back from the slots of vertices 1, 2, 3, 4, 5, 6
ReadUVs(view) ==
    <<<<view[2], view[3]>>, <<view[9], view[10]>>, <<view[16], view[17]>>,
      <<view[23], view[24]>>, <<view[30], view[31]>>, <<view[37], view[38]>>>>

\* the pairs A, B, C, A, C, D
Laid(p) == <<p[1], p[2], p[3], p[1], p[3], p[4]>>

Rounded(p) == [i \in 1..Len(p) |-> <<Fround(p[i][1]), Fround(p[i][2])>>]

OtherSlotsKept ==
    \A i \in (0..(QuadFloats - 1)) \ UVSlots :
        quadVertexViewF32'[i] = quadVertexViewF32[i]

Identity == <<<<R(0), R(0)>>, <<R(0), R(1)>>, <<R(1), R(1)>>, <<R(1), R(0)>>>>

\* C10 as claimed: setUVs writes the u, v slots of the 6 vertices so that
\* reading them back gives the input pairs, and leaves every other slot
\* unchanged; resetUVs sets them to (0,0), (0,1), (1,1), (1,0).
C10_UVsReadBackExactly ==
    [][/\ op' = "setUVs"
            => /\ ReadUVs(quadVertexViewF32') = Laid(uvArgs')
               /\ OtherSlotsKept
       /\ op' = "resetUVs"
            => /\ ReadUVs(quadVertexViewF32') = Laid(Identity)
               /\ OtherSlotsKept]_vars

\* values of u and v that a 32-bit float holds
ExactUVs == {R(0), R(1), <<1, 2>>, <<3, 4>>}

\* C10 amended: reading the slots back gives the input pairs rounded to
\* 32-bit floats, which are the input pairs when a 32-bit float holds them.
C10_UVsReadBackAsFloats ==
    [][/\ op' = "setUVs"
            => /\ ReadUVs(quadVertexViewF32') = Rounded(Laid(uvArgs'))
               /\ \A k \in 1..6 : \A j \in 1..2 :
                    Laid(uvArgs')[k][j] \in ExactUVs
                        => ReadUVs(quadVertexViewF32')[k][j] = Laid(uvArgs')[k][j]
               /\ \A i \in UVSlots :
                    Fround(quadVertexViewF32'[i]) = quadVertexViewF32'[i]
               /\ OtherSlotsKept
       /\ op' = "resetUVs"
            => /\ ReadUVs(quadVertexViewF32') = Laid(Identity)
               /\ OtherSlotsKept]_vars

\* C10 witness: four different pairs, one of them with a value no 32-bit
\* float holds, written over a buffer whose positions are set
C10_Witness ==
    /\ op = "setUVs"
    /\ Cardinality({uvArgs[i] : i \in 1..4}) = 4
    /\ \E i \in 1..4 : ~IsF32(uvArgs[i][1])
    /\ quadVertexViewF32[2] # uvArgs[1][1]
    /\ quadVertexViewF32[14] = R(width)
    /\ quadVertexViewF32[36] = R(height)

\* --------------------------------------------- the quad position claims ----
\* the x, y pairs read back from the slots of vertices 1 to 6
ReadPositions(view) ==
    <<<<view[0], view[1]>>, <<view[7], view[8]>>, <<view[14], view[15]>>,
      <<view[21], view[22]>>, <<view[28], view[29]>>, <<view[35], view[36]>>>>

\* (0,h), (0,0), (w,0), (0,h), (w,0), (w,h)
FullQuad(w, h) ==
    <<<<R(0), R(h)>>, <<R(0), R(0)>>, <<R(w), R(0)>>,
      <<R(0), R(h)>>, <<R(w), R(0)>>, <<R(w), R(h)>>>>

\* C11: after boot, whatever onResize, setUVs, setTargetUVs and resetUVs
\* calls were made, the position slots of the 6 vertices are the full quad
\* of the latest onResize, (0,h), (0,0), (w,0), (0,h), (w,0), (w,h), and a
\* setUVs, setTargetUVs or resetUVs changes no slot but the UV slots.
C11_PositionsOfLatestResize ==
    [][boots' > 0
        => /\ ReadPositions(quadVertexViewF32') = FullQuad(resized'[1], resized'[2])
           /\ op' \in {"setUVs", "setTargetUVs", "resetUVs"}
                => \A i \in (0..(QuadFloats - 1)) \ UVSlots :
                     quadVertexViewF32'[i] = quadVertexViewF32[i]]_vars

\* C11 witness: a blit with shifted UVs after a resize to a size that is
\* not the renderer's at boot
C11_Witness ==
    /\ op = "setTargetUVs"
    /\ resized = <<320, 240>>
    /\ <<width, height>> # resized
    /\ quadVertexViewF32[3] # R(0)
    /\ quadVertexViewF32[35] = R(320)

\* ----------------------------------------- more claims about the pool ----
\* C12: the index getSpriteTarget chooses (and stores in
\* spriteData.textureIndex) is monotonic in the size: of two lookups on the
\* same pool, the one for the smaller size gets an index <= the other's,
\* also when the larger size is above maxDimension.
C12_IndexMonotonic ==
    [][(op = "getSpriteTarget" /\ op' = "getSpriteTarget" /\ arg < arg')
        => textureIndex <= textureIndex']_vars

\* ------------------------------------------- more claims about batchQuad ----
\* C13: batchQuad returns true for every input.
C13_BatchQuadReturnsTrue == (op = "batchQuad") => (batchRet = "true")

\* the calls of batchQuad that do not throw return true
BatchQuadTrueWhenCompleted ==
    (op = "batchQuad" /\ error = "none") => (batchRet = "true")

\* C14: drawSprite(target, clear, shader) invokes the onDrawSprite
\* callback after the shader has been set and before the sprite is drawn,
\* and draws the sprite to the given target.
C14_DrawSpriteCallsOnDrawSprite ==
    (op = "drawSprite")
        => \E i, j, k \in 1..Len(log) :
             /\ i < j /\ j < k
             /\ log[i] = "setShader"
             /\ log[j] = "onDrawSprite"
             /\ log[k] = "batchVert"

\* ----------------------------------------------- the target UV claims ----
\* C15: setTargetUVs(source, target) with source.height = target.height
\* computes diff = 0, and the UVs it sets are those that resetUVs sets.
C15_EqualHeightsNoShift ==
    (op = "setTargetUVs" /\ uvArgs[1].height = uvArgs[2].height)
        => /\ targetDiff(uvArgs[1], uvArgs[2]) = R(0)
           /\ ReadUVs(quadVertexViewF32) = Laid(Identity)
           /\ quadVertexViewF32 = resetUVs(This).quadVertexViewF32

\* C15 witness: setTargetUVs done on two different targets of one height
C15_Witness ==
    /\ op = "setTargetUVs"
    /\ uvArgs[1].id # uvArgs[2].id
    /\ uvArgs[1].height = uvArgs[2].height
    /\ quadVertexViewF32[17] = R(1)

\* ------------------------------------------------ the copy-crop claims ----
\* C16: in the copy-crop of batchQuad, ty = 0 when the target's height is
\* the screen height, and otherwise ty = screenHeight - bottomEdge - padding,
\* bottomEdge the largest y of the 4 corners, padding the sprite's fxPadding.
C16_CropOriginOnePadding ==
    (op = "batchQuad" /\ crop # NoCrop)
        => crop.ty = IF crop.target.height = height THEN 0
                     ELSE height - Greatest(QuadYs) - quad.gameObject.fxPadding

\* what the copy-crop does: the padding is taken off twice
CropOriginTwoPaddings ==
    (op = "batchQuad" /\ crop # NoCrop)
        => crop.ty = IF crop.target.height = height THEN 0
                     ELSE height - Greatest(QuadYs) - 2 * quad.gameObject.fxPadding

\* --------------------------------------------- the sprite state claims ----
\* C17: after every batchQuad call whose onDraw ends in drawToGame or
\* copyToGame, spriteData.sprite and spriteData.texture are null; during
\* the call, from before onDrawSprite until bindAndDraw, spriteData.sprite
\* is the sprite being drawn.
C17_SpriteStateCleared ==
    (op = "batchQuad" /\ gameDraw # NoGameDraw)
        => /\ sprite = Null
           /\ texture = "null"
           /\ Len(seen) >= 3
           /\ \A i \in 1..Len(seen) : seen[i] = quad.gameObject

\* C17 witness: a sprite drawn through copySprite and drawToGame, after
\* which spriteData holds nothing
C17_Witness ==
    /\ op = "batchQuad"
    /\ quad.hook.name = "copySprite"
    /\ gameDraw # NoGameDraw
    /\ Len(seen) = 4
    /\ seen[4].name = "pipe"
    /\ sprite = Null

\* ------------------------------------------- the requested size claims ----
\* the width and height of the tight bounding box of the 4 corners, each
\* with the sprite's padding added on both sides
PaddedWidth == Greatest(QuadXs) - Least(QuadXs) + 2 * quad.gameObject.fxPadding
PaddedHeight == Greatest(QuadYs) - Least(QuadYs) + 2 * quad.gameObject.fxPadding

\* C18 as claimed: the size batchQuad requests from the pool is
\* max(bw + 2 * padding, bh + 2 * padding), for every quad and padding.
C18_RequestsMaxOfPadded ==
    (op = "batchQuad") => asked = Max(PaddedWidth, PaddedHeight)

\* C18 amended: the size requested is the absolute value of
\* max(bw + 2 * padding, bh + 2 * padding), which is that maximum when it
\* is not negative, as with every padding >= 0.
C18_RequestsAbsOfMax ==
    (op = "batchQuad")
        => /\ asked = Abs(Max(PaddedWidth, PaddedHeight))
           /\ quad.gameObject.fxPadding >= 0 => asked = Max(PaddedWidth, PaddedHeight)
           /\ asked >= 0

\* C18 witness: a padded sprite wider than tall, and taller than wide with
\* its shear, has asked for its padded width
C18_Witness ==
    /\ op = "batchQuad"
    /\ quad.gameObject.fxPadding = 10
    /\ PaddedWidth > PaddedHeight
    /\ PaddedHeight > 20
    /\ asked = PaddedWidth
    /\ error = "none"

\* ------------------------------------------------ the copySprite claims ----
\* the UVs of a copy shifted by d: (0,d), (0,1+d), (1,1+d), (1,d)
Shifted(d) ==
    <<<<R(0), d>>, <<R(0), RAdd(R(1), d)>>, <<R(1), RAdd(R(1), d)>>, <<R(1), d>>>>

\* C19: copySprite sets the quad UVs itself on every call: setTargetUVs
\* exactly when source.height > target.height, otherwise resetUVs with the
\* viewport offset vertically by target.height - source.height; the UVs of
\* the draw depend only on the heights of this call's source and target.
C19_CopySetsItsUVs ==
    (op = "batchQuad" /\ copyDraw # NoCopyDraw)
        => LET sh == copyDraw.source.height
               th == copyDraw.target.height
           IN  /\ sh > th
                    => /\ copyDraw.uvCall = "setTargetUVs"
                       /\ Count(log, "setTargetUVs") = 1
                       /\ Count(log, "resetUVs") = 0
                       /\ ReadUVs(copyDraw.buffer) =
                            Rounded(Laid(Shifted(RSub(R(1), Norm(th, sh)))))
               /\ sh <= th
                    => /\ copyDraw.uvCall = "resetUVs"
                       /\ Count(log, "resetUVs") = 1
                       /\ Count(log, "setTargetUVs") = 0
                       /\ ReadUVs(copyDraw.buffer) = Laid(Identity)
                       /\ copyDraw.viewportY = th - sh

\* C19 witness: a copy from the full-screen target to a smaller one, drawn
\* with shifted UVs
C19_Witness ==
    /\ op = "batchQuad"
    /\ quad.hook.name = "copyFromFull"
    /\ copyDraw.source.height > copyDraw.target.height
    /\ copyDraw.uvCall = "setTargetUVs"
    /\ copyDraw.buffer[3] # R(0)

\* the calls of the copySprite made by onDraw
CopyCalls == SubSeq(log, FirstAt(log, "copySprite", 1), Len(log))

TargetsInHand ==
    <<ret, getSwapTarget(This).ret>>
        \o (IF altFrame THEN <<getAltSwapTarget(This).ret>> ELSE <<>>)
        \o <<fsTarget>>

\* C21: after every getSpriteTarget, for both altFrame settings, the primary
\* target, the swap target, the alt-swap target (when altFrame is set) and
\* the scratch target fsTarget are pairwise distinct render targets, and the
\* swap and alt-swap targets have the dimensions of the primary.
C21_TargetsPairwiseDistinct ==
    (boots > 0 /\ op = "getSpriteTarget")
        => /\ \A i \in 1..Len(TargetsInHand) : TargetsInHand[i] # Undefined
           /\ \A i, j \in 1..Len(TargetsInHand) :
                  i # j => TargetsInHand[i].id # TargetsInHand[j].id
           /\ \A i \in 2..(Len(TargetsInHand) - 1) :
                  /\ TargetsInHand[i].width = ret.width
                  /\ TargetsInHand[i].height = ret.height

\* what holds instead: after a single boot the targets are distinct and alike
\* for the sizes that select a target of the ladder
C21_DistinctWithinLadder ==
    (boots = 1 /\ op = "getSpriteTarget" /\ arg > 0 /\ arg <= maxDimension
        /\ textureIndex + 2 * offset(This) < Len(renderTargets))
        => /\ \A i \in 1..Len(TargetsInHand) : TargetsInHand[i] # Undefined
           /\ \A i, j \in 1..Len(TargetsInHand) :
                  i # j => TargetsInHand[i].id # TargetsInHand[j].id
           /\ \A i \in 2..(Len(TargetsInHand) - 1) :
                  /\ TargetsInHand[i].width = ret.width
                  /\ TargetsInHand[i].height = ret.height

\* the 4 corners of the quad of the call lie inside the viewport
QuadInViewport ==
    /\ \A x \in QuadXs : 0 <= x /\ x <= width
    /\ \A y \in QuadYs : 0 <= y /\ y <= height

\* C22: for every sprite quad whose 4 corners lie inside the viewport, the
\* rectangle read from the scratch target in the copy-crop step lies inside
\* the scratch surface: 0 <= tx, tx + tw <= screenWidth, 0 <= ty and
\* ty + th <= screenHeight.
C22_CropInsideScratch ==
    (op = "batchQuad" /\ crop # NoCrop /\ QuadInViewport)
        => /\ 0 <= crop.tx[1]
           /\ crop.tx[1] + crop.tw * crop.tx[2] <= width * crop.tx[2]
           /\ 0 <= crop.ty
           /\ crop.ty + crop.th <= height

\* what the copy-crop keeps: the rectangle is no larger than the screen
CropNoLargerThanScreen ==
    (op = "batchQuad" /\ crop # NoCrop)
        => /\ 0 < crop.tw /\ crop.tw <= width
           /\ 0 < crop.th /\ crop.th <= height

\* ------------------------------------------- the sprite of copySprite ----
\* C23: whenever copySprite runs after boot, spriteData.sprite is a non-null
\* sprite: every copySprite call gets as far as the sprite's onFXCopy, also
\* when it is called before the first batchQuad or after drawToGame or
\* copyToGame has run for the current sprite.
C23_CopySpriteHasSprite ==
    (boots > 0 /\ op \in {"batchQuad", "copySprite"})
        => Count(log, "onFXCopy") = Count(log, "setVertexBuffer")

\* what holds instead: the copySprite calls that an onDraw makes before it
\* draws to the game find the sprite of the batchQuad call in progress
CopyBeforeDrawHasSprite ==
    (boots > 0 /\ op = "batchQuad" /\ quad.hook \in CopyHooks
        /\ Count(log, "setVertexBuffer") > 0)
        => /\ Count(log, "onFXCopy") = Count(log, "setVertexBuffer")
           /\ \A i \in 1..Len(seen) : seen[i] = quad.gameObject

====
